---- MODULE Spec2Model ----
(***************************************************************************)
(* Model of lib/auth0verification.js: the route-exclusion list, the        *)
(* scheme selector jwtAuthentication, the v2 key callback and              *)
(* getAuthPublicKey with its shared key cache, and the id_token            *)
(* middleware.  The synchronous part of a request is one step (Node runs   *)
(* a handler to its first asynchronous call without interleaving); the     *)
(* completions of cache.get, getSigningKeyAsync and cache.set are steps of *)
(* their own, so concurrent requests interleave exactly there.             *)
(***************************************************************************)
EXTENDS Integers, Sequences, FiniteSets, TLC

VARIABLES config, reqs, cache, rootLastIndex

vars == <<config, reqs, cache, rootLastIndex>>

(* ------------------------------ bounds --------------------------------- *)

\* number of requests of one run
NumReqs == 2

\* a cache entry is followed for this many ticks of the clock
MaxTicks == 2

\* seconds that pass in one tick
TickSeconds == 18000

(* ----------------------------- constants ------------------------------- *)

ERROR_NAME == "UnauthorizedError"

\* third argument of cache.set
CACHE_TTL == 36000

Reqs == 1..NumReqs

(* ------------------------------ strings -------------------------------- *)
\* A string is the sequence of its characters.

S_root == <<"/">>
S_livecheck == <<"/", "l", "i", "v", "e", "c", "h", "e", "c", "k">>
S_swagger == <<"/", "s", "w", "a", "g", "g", "e", "r">>
S_widget == <<"/", "a", "u", "t", "h", "t", "o", "o", "l", "s", "/",
              "w", "i", "d", "g", "e", "t", ".", "j", "s">>
S_connections == <<"/", "a", "u", "t", "h", "t", "o", "o", "l", "s", "/",
                   "c", "o", "n", "n", "e", "c", "t", "i", "o", "n", "s", ".", "j", "s">>
S_open == <<"/", "o", "p", "e", "n">>

\* String.prototype.toLowerCase on the letters the request paths use
ToLower(c) ==
  CASE c = "L" -> "l"
    [] c = "C" -> "c"
    [] OTHER -> c

(* ------------------------------ base64 --------------------------------- *)
\* Buffer(bytes).toString("base64") and Buffer(text, "base64"): a byte is a
\* number 0..255, an encoded character is its index 0..63 in the base64
\* alphabet, and 64 stands for the padding character "=".

Pad == 64

RECURSIVE Base64Encode(_)
Base64Encode(b) ==
  IF Len(b) = 0 THEN <<>>
  ELSE IF Len(b) = 1 THEN
    <<b[1] \div 4, (b[1] % 4) * 16, Pad, Pad>>
  ELSE IF Len(b) = 2 THEN
    <<b[1] \div 4, (b[1] % 4) * 16 + (b[2] \div 16), (b[2] % 16) * 4, Pad>>
  ELSE
    <<b[1] \div 4, (b[1] % 4) * 16 + (b[2] \div 16),
      (b[2] % 16) * 4 + (b[3] \div 64), b[3] % 64>>
      \o Base64Encode(SubSeq(b, 4, Len(b)))

RECURSIVE Base64Decode(_)
Base64Decode(t) ==
  IF Len(t) < 2 \/ t[1] = Pad \/ t[2] = Pad THEN <<>>
  ELSE IF Len(t) = 2 \/ t[3] = Pad THEN
    <<t[1] * 4 + (t[2] \div 16)>>
  ELSE IF Len(t) = 3 \/ t[4] = Pad THEN
    <<t[1] * 4 + (t[2] \div 16), (t[2] % 16) * 16 + (t[3] \div 4)>>
  ELSE
    <<t[1] * 4 + (t[2] \div 16), (t[2] % 16) * 16 + (t[3] \div 4),
      (t[3] % 4) * 64 + t[4]>>
      \o Base64Decode(SubSeq(t, 5, Len(t)))

(* --------------------------- route exclusion --------------------------- *)
\* A RegExp is its source and its flags; the sources used here are literal
\* characters, "." (any character) and the anchors "^" and "$".

RegExp(src, flags) == [src |-> src, flags |-> flags]

AnchoredStart(re) == Len(re.src) > 0 /\ re.src[1] = "^"

AnchoredEnd(re) == Len(re.src) > 0 /\ re.src[Len(re.src)] = "$"

\* the pattern's characters between the anchors
Atoms(re) ==
  SubSeq(re.src, IF AnchoredStart(re) THEN 2 ELSE 1,
                 IF AnchoredEnd(re) THEN Len(re.src) - 1 ELSE Len(re.src))

CharMatches(re, a, c) ==
  \/ a = "."
  \/ a = c
  \/ "i" \in re.flags /\ ToLower(a) = ToLower(c)

\* the pattern matches s starting at 0-based index i
MatchesAt(re, s, i) ==
  LET a == Atoms(re) IN
    /\ i + Len(a) <= Len(s)
    /\ AnchoredStart(re) => i = 0
    /\ AnchoredEnd(re) => i + Len(a) = Len(s)
    /\ \A j \in 1..Len(a) : CharMatches(re, a[j], s[i + j])

\* RegExp.prototype.exec: with the g flag the search starts at lastIndex and
\* leaves lastIndex after the match, or at 0 when nothing matches; without
\* it the search starts at 0 and lastIndex is not touched.
RegExpExec(re, s, lastIndex) ==
  LET from == IF "g" \in re.flags THEN lastIndex ELSE 0
      hits == {i \in from..Len(s) : MatchesAt(re, s, i)}
      first == CHOOSE i \in hits : \A k \in hits : i <= k
  IN  IF hits = {}
        THEN [matched |-> FALSE,
              lastIndex |-> IF "g" \in re.flags THEN 0 ELSE lastIndex]
        ELSE [matched |-> TRUE,
              lastIndex |-> IF "g" \in re.flags
                              THEN first + Len(Atoms(re)) ELSE lastIndex]

\* An entry of the route list is a path string or a {url, methods} object.
StringRoute(str) == [kind |-> "string", str |-> str]

ObjectRoute(url, methods) == [kind |-> "object", url |-> url, methods |-> methods]

defaultExcludedRoutes ==
  <<StringRoute(S_livecheck), StringRoute(S_swagger),
    StringRoute(S_widget), StringRoute(S_connections)>>

\* _.union of two lists: the first occurrence of each element, in order
RECURSIVE Uniq(_)
Uniq(l) ==
  IF l = <<>> THEN <<>>
  ELSE LET r == Uniq(SubSeq(l, 1, Len(l) - 1)) IN
    IF \E i \in 1..Len(r) : r[i] = l[Len(l)] THEN r ELSE Append(r, l[Len(l)])

\* the compiled form of one route: a string becomes a case-insensitive
\* RegExp, a {url, ...} object gets its url compiled and is kept
CompileRoute(route) ==
  IF route.kind = "string"
    THEN [kind |-> "regexp", url |-> RegExp(route.str, {"i"}), methods |-> {}]
    ELSE [kind |-> "object", url |-> RegExp(route.url, {"i"}),
          methods |-> route.methods]

rootRegExp == RegExp(<<"^", "/", "$">>, {"i", "g"})

getExcludedRoutes(configuredExclusions) ==
  LET routesToExclude == Uniq(defaultExcludedRoutes \o configuredExclusions)
  IN  Append([i \in 1..Len(routesToExclude) |-> CompileRoute(routesToExclude[i])],
             [kind |-> "regexp", url |-> rootRegExp, methods |-> {}])

\* express-unless, isMethodMatch: no methods given matches every method
isMethodMatch(methods, m) == methods = {} \/ m \in methods

\* express-unless, paths.some(...): the patterns are tried in order up to the
\* first that matches; an exec of the root pattern (the one with the g flag)
\* reads and writes its lastIndex.  The result is <<skip, lastIndex>>.
RECURSIVE SomeMatch(_, _, _, _, _)
SomeMatch(patterns, k, method, pathname, lastIndex) ==
  IF k > Len(patterns) THEN <<FALSE, lastIndex>>
  ELSE LET p == patterns[k]
           x == RegExpExec(p.url, pathname, lastIndex)
       IN  IF x.matched /\ isMethodMatch(p.methods, method)
             THEN <<TRUE, x.lastIndex>>
             ELSE SomeMatch(patterns, k + 1, method, pathname, x.lastIndex)

(* ------------------------------ requests ------------------------------- *)

\* What jwt.decode(token, {complete: true}) and the verifying library see in
\* a credential: decode is "throws", "null" (not a token) or "ok"; alg and
\* kid are the decoded header's fields; valid says that the signature and
\* the audience and issuer claims are right for the scheme that alg names.
Token(decode, alg, kid, valid) ==
  [decode |-> decode, alg |-> alg, kid |-> kid, valid |-> valid]

Credentials ==
  {"t_throws", "t_garbage", "t_hs_good", "t_hs_bad",
   "t_rs_nokid", "t_rs_k1_good", "t_rs_k1_bad", "t_rs_k2_good"}

\* the credentials sent with a path that may be excluded
FewCredentials == {"t_hs_good", "t_rs_k1_good"}

TokenOf(cred) ==
  CASE cred = "t_throws" -> Token("throws", "none", "none", FALSE)
    [] cred = "t_garbage" -> Token("null", "none", "none", FALSE)
    [] cred = "t_hs_good" -> Token("ok", "HS256", "none", TRUE)
    [] cred = "t_hs_bad" -> Token("ok", "HS256", "none", FALSE)
    [] cred = "t_rs_nokid" -> Token("ok", "RS256", "none", TRUE)
    [] cred = "t_rs_k1_good" -> Token("ok", "RS256", "k1", TRUE)
    [] cred = "t_rs_k1_bad" -> Token("ok", "RS256", "k1", FALSE)
    [] cred = "t_rs_k2_good" -> Token("ok", "RS256", "k2", TRUE)
    [] OTHER -> Token("null", "none", "none", FALSE)

Kids == {"k1", "k2"}

\* req.headers.authorization as "<scheme> <cred>"; NoAuth is no header
Auth(scheme, cred) == [scheme |-> scheme, cred |-> cred]

NoAuth == Auth("none", "none")

AuthHeaders ==
  {NoAuth}
    \cup {Auth("Bearer", c) : c \in Credentials}
    \cup {Auth("Basic", c) : c \in FewCredentials}
    \cup {Auth("bearer", "t_hs_good")}

Request(method, path, auth) == [method |-> method, path |-> path, auth |-> auth]

\* the requests the clients send
RequestInputs ==
  {Request("POST", S_open, a) : a \in AuthHeaders}
    \cup {Request("GET", S_open, Auth("Bearer", c)) : c \in FewCredentials}
    \cup {Request("GET", S_root, Auth("Bearer", c)) : c \in FewCredentials}

(* ------------------------------- errors -------------------------------- *)
\* What a call of next carries: NoError for next(), else the error's name
\* and message.

Err(name, message) == [name |-> name, message |-> message]

NoError == Err("none", "none")

\* the error class of express-jwt
UnauthorizedError(message) == Err("UnauthorizedError", message)

\* new Error(message), its name left as it is
PlainError(message) == Err("Error", message)

(* -------------------------------- keys --------------------------------- *)
\* The signing keys the key-set endpoint publishes; <<>> is a field the key
\* does not have.

SigningKey(kid) ==
  IF kid = "k1"
    THEN [publicKey |-> <<77, 97>>, rsaPublicKey |-> <<>>]
    ELSE [publicKey |-> <<>>, rsaPublicKey |-> <<77, 97, 110, 33>>]

\* key.publicKey || key.rsaPublicKey
PublicKeyOf(key) == IF key.publicKey # <<>> THEN key.publicKey ELSE key.rsaPublicKey

\* what getAuthPublicKey resolves with
KeyBytes(b) == [kind |-> "bytes", bytes |-> b]

KeyNone == [kind |-> "none", bytes |-> <<>>]

KeyErrorValue == [kind |-> "error", bytes |-> <<>>]

\* a cache key that leaves out the key id
CacheKey_withoutKid(kid) == <<"kid", "k1">>

\* the cache key `kid${kid}`
CacheKey(kid) == <<"kid", kid>>

CacheKeys == {CacheKey(k) : k \in Kids}

\* A cache entry: the value and the ttl given to cache.set, and the seconds
\* since it was stored.  NoEntry is a key never stored.
NoEntry == [value |-> <<>>, age |-> -1, ttl |-> 0]

\* cache.get gives the stored value while the entry is live, else undefined
Live(entry) == entry.age >= 0 /\ entry.age < entry.ttl

(* ------------------------------- config -------------------------------- *)
\* secret, audience and jwksUrl say whether the field is set; enableV1 is
\* the flag after its default has been applied.

Configs ==
  [secret : BOOLEAN, enableV1 : BOOLEAN, audience : BOOLEAN, jwksUrl : BOOLEAN]

\* config.excludedRoutes of the modelled deployment
configuredExclusions == <<ObjectRoute(S_open, {"GET"})>>

\* v1JwtCheck is assigned only under this condition
v1Defined(cfg) == cfg.secret /\ cfg.enableV1

\* v2JwtCheck is assigned only under this condition
v2Defined(cfg) == cfg.audience /\ cfg.jwksUrl

(* --------------------------- request records --------------------------- *)
\* pc: "new" not yet received, "get" waiting for cache.get, "fetching"
\* waiting for getSigningKeyAsync, "setting" waiting for cache.set, "done".
\* nextCalls: the calls of next made for the request, in order.  threw: the
\* handler threw (a call of an undefined verifier).  invoked / accepted: the
\* verifiers that ran / that accepted the token.  user: req.user is set.
\* hit: cache.get gave a value.  fetches: calls of getSigningKeyAsync.
\* setCall: the arguments of its cache.set.  wrote: that cache.set stored.
\* fetchFailed: getSigningKeyAsync failed.  seenAge: the age of the entry
\* its cache.get looked at (-1: never stored, -2: no cache.get yet).
\* key: what getAuthPublicKey resolved with.

NoCall == [key |-> <<>>, value |-> <<>>, ttl |-> 0]

NewReq ==
  [pc |-> "new", method |-> "none", path |-> <<>>, auth |-> NoAuth,
   excluded |-> FALSE, nextCalls |-> <<>>, threw |-> FALSE,
   invoked |-> {}, accepted |-> {}, user |-> FALSE, id_token |-> "none",
   hit |-> FALSE, fetches |-> 0, setCall |-> NoCall, wrote |-> FALSE,
   fetchFailed |-> FALSE,
   seenAge |-> -2, key |-> KeyNone]

Tok(q) == TokenOf(q.auth.cred)

\* idTokenMiddleware without the test of the header's scheme
idTokenMiddleware_anyScheme(q) ==
  IF q.user /\ q.auth # NoAuth
    THEN [q EXCEPT !.id_token = q.auth.cred]
    ELSE q

\* the middleware registered after the authentication: copies the
\* credential to req.user.id_token
idTokenMiddleware(q) ==
  IF q.user /\ q.auth # NoAuth /\ q.auth.scheme = "Bearer"
    THEN [q EXCEPT !.id_token = q.auth.cred]
    ELSE q

\* next(e): an error goes to the error handlers, next() to the id_token
\* middleware and on to the routes
CallNext(q, e) ==
  LET q1 == [q EXCEPT !.nextCalls = Append(@, e)]
  IN  IF e = NoError THEN idTokenMiddleware(q1) ELSE q1

Finish(q) == [q EXCEPT !.pc = "done"]

(* ----------------------------- express-jwt ----------------------------- *)

\* the scheme test of express-jwt, /^Bearer$/i
IsBearerScheme(scheme) == scheme \in {"Bearer", "bearer"}

\* the checks of the express-jwt middleware before it asks for the secret
expressJwtTokenError(q) ==
  IF q.auth = NoAuth THEN UnauthorizedError("credentials_required")
  ELSE IF ~IsBearerScheme(q.auth.scheme) THEN UnauthorizedError("credentials_bad_scheme")
  ELSE IF Tok(q).decode = "throws" THEN UnauthorizedError("invalid_token")
  ELSE NoError

\* the verifier accepts: req.user = decoded; next()
Accept(q, v) ==
  CallNext([q EXCEPT !.user = TRUE, !.accepted = @ \cup {v}], NoError)

\* v1JwtCheck = expressJwt({secret, audience: config.clientId})
v1JwtCheck(q) ==
  LET q1 == [q EXCEPT !.invoked = @ \cup {"v1"}]
      e == expressJwtTokenError(q1)
  IN  Finish(
        IF e # NoError THEN CallNext(q1, e)
        ELSE IF Tok(q1).decode = "ok" /\ Tok(q1).alg = "HS256" /\ Tok(q1).valid
          THEN Accept(q1, "v1")
          ELSE CallNext(q1, UnauthorizedError("invalid_token")))

\* jwt.verify of v2JwtCheck with the key the secret callback handed over
verifyToken(q, key) ==
  IF /\ key.kind = "bytes"
     /\ key.bytes = PublicKeyOf(SigningKey(Tok(q).kid))
     /\ Tok(q).alg = "RS256"
     /\ Tok(q).valid
    THEN Accept(q, "v2")
    ELSE CallNext(q, UnauthorizedError("invalid_token"))

\* the continuation of the secret callback once getAuthPublicKey resolved
keyResolved(q, key) ==
  LET q1 == [q EXCEPT !.key = key]
  IN  Finish(
        IF key.kind # "none" THEN verifyToken(q1, key)
        ELSE CallNext(q1, PlainError("Public Key not found for KID")))

\* the secret callback without its rejection handler: done is never called
keyRejected_neverDone(q, e) == [q EXCEPT !.pc = "hung"]

\* the continuation of the secret callback once getAuthPublicKey rejected
keyRejected(q, e) == Finish(CallNext(q, e))

\* v2JwtCheck whose secret callback does not test header.kid
v2JwtCheck_noKidTest(q) ==
  LET q1 == [q EXCEPT !.invoked = @ \cup {"v2"}]
      e == expressJwtTokenError(q1)
  IN  IF e # NoError THEN Finish(CallNext(q1, e))
      ELSE [q1 EXCEPT !.pc = "get"]

\* v2JwtCheck up to its first asynchronous call: the checks of express-jwt,
\* then the secret callback, which starts getAuthPublicKey (cache.get)
v2JwtCheck(q) ==
  LET q1 == [q EXCEPT !.invoked = @ \cup {"v2"}]
      e == expressJwtTokenError(q1)
  IN  IF e # NoError THEN Finish(CallNext(q1, e))
      ELSE IF Tok(q1).decode # "ok" \/ Tok(q1).kid = "none"
        THEN Finish(CallNext(q1, PlainError("JWT KID Not Found")))
        ELSE [q1 EXCEPT !.pc = "get"]

(* -------------------------- scheme selection --------------------------- *)

\* a call of a verifier that was never assigned throws a TypeError
Throw(q) == Finish([q EXCEPT !.threw = TRUE])

\* jwtAuthentication calling next() without the error in its last branch
jwtAuthentication_admitsUnsupported(cfg, q) ==
  LET tryDecode == cfg.audience /\ q.auth # NoAuth
      q1 == IF tryDecode /\ Tok(q).decode = "throws"
              THEN CallNext(q, Err(ERROR_NAME, "decode"))
              ELSE q
  IN  IF tryDecode /\ Tok(q).decode = "ok" /\ Tok(q).alg = "RS256"
        THEN IF v2Defined(cfg) THEN v2JwtCheck(q1) ELSE Throw(q1)
      ELSE IF cfg.enableV1
        THEN IF v1Defined(cfg) THEN v1JwtCheck(q1) ELSE Throw(q1)
      ELSE Finish(CallNext(q1, NoError))

\* jwtAuthentication testing config.secret where the code tests config.enableV1
jwtAuthentication_testsSecret(cfg, q) ==
  LET tryDecode == cfg.audience /\ q.auth # NoAuth
      q1 == IF tryDecode /\ Tok(q).decode = "throws"
              THEN CallNext(q, Err(ERROR_NAME, "decode"))
              ELSE q
  IN  IF tryDecode /\ Tok(q).decode = "ok" /\ Tok(q).alg = "RS256"
        THEN IF v2Defined(cfg) THEN v2JwtCheck(q1) ELSE Throw(q1)
      ELSE IF cfg.secret
        THEN IF v1Defined(cfg) THEN v1JwtCheck(q1) ELSE Throw(q1)
      ELSE Finish(CallNext(q1,
             Err(ERROR_NAME, "The supplied token is not supported by any enabled auth")))

\* jwtAuthentication without the return before v2JwtCheck: the legacy branch
\* runs as well
jwtAuthentication_fallsThrough(cfg, q) ==
  LET tryDecode == cfg.audience /\ q.auth # NoAuth
      q1 == IF tryDecode /\ Tok(q).decode = "throws"
              THEN CallNext(q, Err(ERROR_NAME, "decode"))
              ELSE q
      q2 == IF tryDecode /\ Tok(q).decode = "ok" /\ Tok(q).alg = "RS256"
              THEN IF v2Defined(cfg) THEN v2JwtCheck(q1) ELSE Throw(q1)
              ELSE q1
  IN  IF q2.threw THEN q2
      ELSE IF cfg.enableV1
        THEN IF v1Defined(cfg)
               THEN [v1JwtCheck(q2) EXCEPT !.pc = IF q2.pc = "get" THEN "get" ELSE "done"]
               ELSE Throw(q2)
      ELSE IF q2.invoked # {} THEN q2
      ELSE Finish(CallNext(q2,
             Err(ERROR_NAME, "The supplied token is not supported by any enabled auth")))

jwtAuthentication(cfg, q) ==
  LET tryDecode == cfg.audience /\ q.auth # NoAuth
      q1 == IF tryDecode /\ Tok(q).decode = "throws"
              THEN CallNext(q, Err(ERROR_NAME, "decode"))
              ELSE q
  IN  IF tryDecode /\ Tok(q).decode = "ok" /\ Tok(q).alg = "RS256"
        THEN IF v2Defined(cfg) THEN v2JwtCheck(q1) ELSE Throw(q1)
      ELSE IF cfg.enableV1
        THEN IF v1Defined(cfg) THEN v1JwtCheck(q1) ELSE Throw(q1)
      ELSE Finish(CallNext(q1,
             Err(ERROR_NAME, "The supplied token is not supported by any enabled auth")))

(* --------------------------- getAuthPublicKey -------------------------- *)

\* onCacheGet with the else lost: a hit is noted and the key is fetched anyway
onCacheGet_refreshesOnHit(q, data) ==
  [q EXCEPT !.hit = (data # <<>>), !.pc = "fetching", !.fetches = @ + 1]

\* the callback of cache.get: a hit resolves with the decoded bytes, a miss
\* makes a key-set client and asks it for the signing key
onCacheGet(q, data) ==
  IF data = <<>>
    THEN [q EXCEPT !.pc = "fetching", !.fetches = @ + 1]
    ELSE keyResolved([q EXCEPT !.hit = TRUE], KeyBytes(Base64Decode(data)))

\* onSigningKey with a ttl of one hour
onSigningKey_ttl3600(q, key) ==
  [q EXCEPT !.pc = "setting",
            !.setCall = [key |-> CacheKey(Tok(q).kid),
                         value |-> Base64Encode(PublicKeyOf(key)), ttl |-> 3600]]

\* onSigningKey with a ttl of a hundred hours
onSigningKey_ttl360000(q, key) ==
  [q EXCEPT !.pc = "setting",
            !.setCall = [key |-> CacheKey(Tok(q).kid),
                         value |-> Base64Encode(PublicKeyOf(key)), ttl |-> 360000]]

\* the callback of getSigningKeyAsync: calls cache.set
onSigningKey(q, key) ==
  LET signingKey == PublicKeyOf(key)
      encodedValue == Base64Encode(signingKey)
  IN  [q EXCEPT !.pc = "setting",
                !.setCall = [key |-> CacheKey(Tok(q).kid),
                             value |-> encodedValue, ttl |-> CACHE_TTL]]

\* onSigningKeyError asking the client once more before it gives up
onSigningKeyError_retries(q) ==
  IF q.fetches < 2
    THEN [q EXCEPT !.fetches = @ + 1]
    ELSE keyResolved([q EXCEPT !.fetchFailed = TRUE], KeyErrorValue)

\* the rejection handler of getSigningKeyAsync, err => err: the resolution
\* resolves with the error as its value
onSigningKeyError(q) ==
  keyResolved([q EXCEPT !.fetchFailed = TRUE], KeyErrorValue)

\* the callback of cache.set: resolves with the key bytes
onCacheSet(q, key) ==
  keyResolved([q EXCEPT !.wrote = TRUE], KeyBytes(PublicKeyOf(key)))

\* what cache.set stores
Stored(call) == [value |-> call.value, age |-> 0, ttl |-> call.ttl]

(* ------------------------------- actions ------------------------------- *)

Init ==
  /\ config \in Configs
  /\ reqs = [r \in Reqs |-> NewReq]
  /\ cache = [k \in CacheKeys |-> NoEntry]
  /\ rootLastIndex = 0

\* A request arrives: the unless wrapper tries the excluded routes and
\* either skips to next() or runs jwtAuthentication up to its first
\* asynchronous call.  Requests are numbered in the order they arrive.
Arrive(r) ==
  \E inp \in RequestInputs :
    /\ reqs[r].pc = "new"
    /\ r > 1 => reqs[r - 1].pc # "new"
    /\ LET m == SomeMatch(getExcludedRoutes(configuredExclusions), 1,
                          inp.method, inp.path, rootLastIndex)
           q == [NewReq EXCEPT !.method = inp.method, !.path = inp.path,
                               !.auth = inp.auth]
       IN  /\ reqs' = [reqs EXCEPT ![r] =
                 IF m[1] THEN Finish(CallNext([q EXCEPT !.excluded = TRUE], NoError))
                         ELSE jwtAuthentication(config, q)]
           /\ rootLastIndex' = m[2]
    /\ UNCHANGED <<config, cache>>

\* cache.get completes: with the live entry's value, with undefined, or
\* with a failure of the cache
CacheGetDone(r) ==
  \E ok \in BOOLEAN :
    /\ reqs[r].pc = "get"
    /\ LET entry == cache[CacheKey(Tok(reqs[r]).kid)]
           q == [reqs[r] EXCEPT !.seenAge = entry.age]
           data == IF Live(entry) THEN entry.value ELSE <<>>
       IN  reqs' = [reqs EXCEPT ![r] =
             IF ok THEN onCacheGet(q, data)
                   ELSE keyRejected(q, PlainError("cache.get failed"))]
    /\ UNCHANGED <<config, cache, rootLastIndex>>

\* getSigningKeyAsync completes: with the key of the key id, or with a failure
FetchDone(r) ==
  \E ok \in BOOLEAN :
    /\ reqs[r].pc = "fetching"
    /\ reqs' = [reqs EXCEPT ![r] =
         IF ok THEN onSigningKey(reqs[r], SigningKey(Tok(reqs[r]).kid))
               ELSE onSigningKeyError(reqs[r])]
    /\ UNCHANGED <<config, cache, rootLastIndex>>

\* cache.set completes: the entry is stored, or the cache fails
CacheSetDone(r) ==
  \E ok \in BOOLEAN :
    /\ reqs[r].pc = "setting"
    /\ IF ok
         THEN /\ cache' = [cache EXCEPT ![reqs[r].setCall.key] =
                             Stored(reqs[r].setCall)]
              /\ reqs' = [reqs EXCEPT ![r] =
                   onCacheSet(reqs[r], SigningKey(Tok(reqs[r]).kid))]
         ELSE /\ cache' = cache
              /\ reqs' = [reqs EXCEPT ![r] =
                   keyRejected(reqs[r], PlainError("cache.set failed"))]
    /\ UNCHANGED <<config, rootLastIndex>>

\* time passes: every stored entry ages
Tick ==
  /\ \E k \in CacheKeys : cache[k].age >= 0 /\ cache[k].age < MaxTicks * TickSeconds
  /\ cache' = [k \in CacheKeys |->
       IF cache[k].age >= 0 /\ cache[k].age < MaxTicks * TickSeconds
         THEN [cache[k] EXCEPT !.age = @ + TickSeconds]
         ELSE cache[k]]
  /\ UNCHANGED <<config, reqs, rootLastIndex>>

Next ==
  \/ \E r \in Reqs : Arrive(r)
  \/ \E r \in Reqs : CacheGetDone(r)
  \/ \E r \in Reqs : FetchDone(r)
  \/ \E r \in Reqs : CacheSetDone(r)
  \/ Tick

Spec == Init /\ [][Next]_vars

\* Every cache.get, getSigningKeyAsync and cache.set that was started
\* completes, with success or failure.
Fairness ==
  \A r \in Reqs :
    /\ WF_vars(CacheGetDone(r))
    /\ WF_vars(FetchDone(r))
    /\ WF_vars(CacheSetDone(r))

SpecLive == Init /\ [][Next]_vars /\ Fairness

(* ------------------------ what a request went through ------------------ *)

Started(q) == q.pc # "new"

Done(q) == q.pc = "done"

\* the request reached the downstream handler without an error
Admitted(q) == \E i \in 1..Len(q.nextCalls) : q.nextCalls[i] = NoError

\* the errors handed to next for the request
ErrorsOf(q) == {q.nextCalls[i] : i \in 1..Len(q.nextCalls)} \ {NoError}

\* jwt.decode was tried on the credential and threw
DecodeThrew(q) == config.audience /\ q.auth # NoAuth /\ Tok(q).decode = "throws"

\* the three conditions of the modern scheme: audience, header, alg RS256
ModernApplies(q) ==
  /\ config.audience
  /\ q.auth # NoAuth
  /\ Tok(q).decode = "ok"
  /\ Tok(q).alg = "RS256"

NotSupportedError ==
  Err("UnauthorizedError", "The supplied token is not supported by any enabled auth")

CacheGetFailed(q) == PlainError("cache.get failed") \in ErrorsOf(q)

KeyOfKid(kid) == PublicKeyOf(SigningKey(kid))

(* -------------------------------- claims ------------------------------- *)

\* C1: a request reaches the downstream handler without an error only if the
\* route matcher excluded it or a verifier (legacy or modern) accepted its
\* token.
C1_AdmittedOnlyIfExcludedOrAccepted ==
  \A r \in Reqs :
    Admitted(reqs[r]) => reqs[r].excluded \/ reqs[r].accepted # {}

\* C1 witness: a request that was not excluded is admitted because the modern
\* verifier accepted it, and another one that no verifier accepted is rejected.
C1_Witness ==
  \E r1, r2 \in Reqs :
    /\ Done(reqs[r1]) /\ ~reqs[r1].excluded
    /\ reqs[r1].accepted = {"v2"} /\ Admitted(reqs[r1])
    /\ Done(reqs[r2]) /\ ~reqs[r2].excluded
    /\ reqs[r2].accepted = {} /\ ~Admitted(reqs[r2])

\* C2: every error handed to next for a request that was not excluded has
\* the name UnauthorizedError.
C2_EveryRejectionIsUnauthorizedError ==
  \A r \in Reqs :
    ~reqs[r].excluded =>
      \A e \in ErrorsOf(reqs[r]) : e.name = "UnauthorizedError"

\* C3: when an audience is configured and decoding the Authorization
\* header's token throws, the request is rejected at once with an
\* UnauthorizedError and the legacy verifier is not invoked for it.
C3_DecodeThrowStops ==
  \A r \in Reqs :
    (Done(reqs[r]) /\ ~reqs[r].excluded /\ DecodeThrew(reqs[r])) =>
      /\ reqs[r].nextCalls[1].name = "UnauthorizedError"
      /\ "v1" \notin reqs[r].invoked

\* C4: for a request that was not excluded, the modern verifier is invoked
\* exactly when an audience is configured, the request has an Authorization
\* header and the decoded alg is RS256; with any other alg and the legacy
\* scheme enabled the legacy verifier is invoked and the modern one is not.
C4_DispatchByAlg ==
  \A r \in Reqs :
    (Started(reqs[r]) /\ ~reqs[r].excluded) =>
      /\ ("v2" \in reqs[r].invoked) <=> ModernApplies(reqs[r])
      /\ (/\ config.audience /\ reqs[r].auth # NoAuth
          /\ Tok(reqs[r]).decode = "ok" /\ Tok(reqs[r]).alg # "RS256"
          /\ config.enableV1) =>
           reqs[r].invoked = {"v1"}

\* C5: with the legacy scheme not enabled and the modern scheme not attempted
\* (no audience, no Authorization header, or a decoded alg other than RS256)
\* the request is rejected with the UnauthorizedError "The supplied token is
\* not supported by any enabled auth", that being the only call of next
\* unless decoding threw, and no verifier is invoked.
C5_NoSchemeRejected ==
  \A r \in Reqs :
    (Started(reqs[r]) /\ ~reqs[r].excluded /\ ~config.enableV1
       /\ ~ModernApplies(reqs[r])) =>
      /\ Done(reqs[r])
      /\ reqs[r].invoked = {}
      /\ ~reqs[r].threw
      /\ reqs[r].nextCalls[Len(reqs[r].nextCalls)] = NotSupportedError
      /\ ~DecodeThrew(reqs[r]) => reqs[r].nextCalls = <<NotSupportedError>>

\* C5 witness: with the legacy scheme disabled and an audience configured, a
\* token of alg HS256 was rejected with that error.
C5_Witness ==
  \E r \in Reqs :
    /\ ~config.enableV1 /\ config.audience
    /\ Done(reqs[r]) /\ ~reqs[r].excluded
    /\ reqs[r].auth = Auth("Bearer", "t_hs_good")
    /\ reqs[r].nextCalls = <<NotSupportedError>>

\* C6: a resolution that finds a live entry in the cache resolves with the
\* decoded bytes of the entry, calls neither getSigningKeyAsync nor cache.set.
C6_CacheHitNoFetch ==
  \A r \in Reqs :
    reqs[r].hit =>
      /\ reqs[r].fetches = 0
      /\ reqs[r].setCall = NoCall /\ ~reqs[r].wrote
      /\ reqs[r].key =
           KeyBytes(Base64Decode(cache[CacheKey(Tok(reqs[r]).kid)].value))
      /\ reqs[r].key.bytes = KeyOfKid(Tok(reqs[r]).kid)

\* C6 witness: a request was verified with a key that came from the cache.
C6_Witness ==
  \E r \in Reqs :
    Done(reqs[r]) /\ reqs[r].hit /\ reqs[r].accepted = {"v2"}

\* C7: a resolution that resolves with a fetched key has stored the base64
\* form of the key under "kid" + key id with a ttl of 36000 seconds, and a
\* resolution that looks at an entry younger than 36000 seconds is served
\* from the cache without a fetch.
C7_MissStoresThenHits ==
  \A r \in Reqs :
    LET q == reqs[r]
        kid == Tok(q).kid
    IN  /\ (Done(q) /\ q.key.kind = "bytes" /\ ~q.hit) =>
             /\ q.wrote
             /\ q.setCall = [key |-> <<"kid", kid>>,
                             value |-> Base64Encode(KeyOfKid(kid)),
                             ttl |-> 36000]
             /\ q.key.bytes = KeyOfKid(kid)
             /\ cache[<<"kid", kid>>].value = Base64Encode(KeyOfKid(kid))
        /\ (q.seenAge >= 0 /\ q.seenAge < 36000 /\ ~CacheGetFailed(q)) =>
             q.hit /\ q.fetches = 0

\* C7 witness: one request fetched and stored the key, and a later one for
\* the same key id found the entry, some time old, and was served from it.
C7_Witness ==
  \E r1, r2 \in Reqs :
    /\ r1 # r2 /\ Tok(reqs[r1]).kid = Tok(reqs[r2]).kid
    /\ Done(reqs[r1]) /\ reqs[r1].wrote /\ reqs[r1].accepted = {"v2"}
    /\ Done(reqs[r2]) /\ reqs[r2].seenAge > 0 /\ reqs[r2].seenAge < 36000
    /\ reqs[r2].hit /\ reqs[r2].accepted = {"v2"}

\* C8: a resolution that looks at an entry stored 36000 seconds ago or
\* earlier does not use it: it fetches the key, and a key it resolves with
\* is the fetched one, stored anew.
C8_ExpiredEntryRefetched ==
  \A r \in Reqs :
    LET q == reqs[r] IN
      (q.seenAge >= 36000 /\ ~CacheGetFailed(q)) =>
        /\ ~q.hit
        /\ q.fetches = 1
        /\ (Done(q) /\ q.key.kind = "bytes") => q.wrote

\* C8 witness: a request found the entry of its key id expired, fetched the
\* key again and was verified.
C8_Witness ==
  \E r \in Reqs :
    /\ Done(reqs[r]) /\ reqs[r].seenAge >= 36000
    /\ reqs[r].fetches = 1 /\ reqs[r].wrote /\ reqs[r].accepted = {"v2"}

\* C9: requests that resolve the same key id at the same time share one
\* key-set fetch: no two fetches for one key id are in flight together.
C9_SingleFlight ==
  \A r1, r2 \in Reqs :
    (/\ r1 # r2
     /\ reqs[r1].pc = "fetching" /\ reqs[r2].pc = "fetching"
     /\ Tok(reqs[r1]).kid = Tok(reqs[r2]).kid) => FALSE

\* C10: the step in which a request's key-set fetch fails leaves the cache
\* as it was and ends the request's resolution after that one fetch, with no
\* cache.set; and a cache.get that finds no live entry is followed by a fetch
\* of the request's own.
C10_FailedFetchNotCached ==
  [][\A r \in Reqs :
       /\ (reqs[r].pc = "fetching" /\ reqs'[r].fetchFailed) =>
            /\ cache' = cache
            /\ Done(reqs'[r])
            /\ reqs'[r].fetches = 1
            /\ reqs'[r].setCall = NoCall /\ ~reqs'[r].wrote
       /\ (/\ reqs[r].pc = "get" /\ reqs'[r].pc # "get"
           /\ ~Live(cache[CacheKey(Tok(reqs[r]).kid)])
           /\ ~CacheGetFailed(reqs'[r])) =>
            reqs'[r].pc = "fetching" /\ reqs'[r].fetches = 1]_vars

\* C10 witness: the fetch of one request failed, and a later request for the
\* same key id found no entry, fetched the key itself and was verified.
C10_Witness ==
  \E r1, r2 \in Reqs :
    /\ r1 < r2 /\ Tok(reqs[r1]).kid = Tok(reqs[r2]).kid
    /\ Done(reqs[r1]) /\ reqs[r1].fetchFailed /\ reqs[r1].fetches = 1
    /\ Done(reqs[r2]) /\ reqs[r2].seenAge = -1 /\ reqs[r2].fetches = 1
    /\ reqs[r2].wrote /\ reqs[r2].accepted = {"v2"}

\* C11: req.user.id_token is set only on a handled request that a verifier
\* accepted and whose Authorization scheme is exactly "Bearer", and then it
\* is the credential after the scheme; such a request always gets it; an
\* excluded request and a request without req.user get none.
C11_IdTokenOnlyForVerifiedBearer ==
  \A r \in Reqs :
    LET q == reqs[r] IN
      /\ q.id_token # "none" =>
           /\ Done(q) /\ Admitted(q)
           /\ q.user /\ q.accepted # {}
           /\ q.auth.scheme = "Bearer"
           /\ q.id_token = q.auth.cred
      /\ (Done(q) /\ q.accepted # {} /\ q.auth.scheme = "Bearer") =>
           q.id_token = q.auth.cred
      /\ (q.excluded \/ ~q.user) => q.id_token = "none"

\* C11 witness: a verified request with scheme "Bearer" carries its
\* credential as id_token, and an excluded request that sent a Bearer
\* credential carries none.
C11_Witness ==
  \E r1, r2 \in Reqs :
    /\ Done(reqs[r1]) /\ reqs[r1].accepted = {"v2"}
    /\ reqs[r1].auth = Auth("Bearer", "t_rs_k1_good")
    /\ reqs[r1].id_token = "t_rs_k1_good"
    /\ Done(reqs[r2]) /\ reqs[r2].excluded
    /\ reqs[r2].auth.scheme = "Bearer" /\ reqs[r2].id_token = "none"

\* the compiled patterns of the modelled deployment
excludedRoutes == getExcludedRoutes(configuredExclusions)

\* the pattern matches the request: its RegExp matches somewhere in the path
\* and its methods, if it has any, include the request's method
PatternMatches(p, method, path) ==
  /\ \E i \in 0..Len(path) : MatchesAt(p.url, path, i)
  /\ isMethodMatch(p.methods, method)

\* C12: every request whose path is exactly "/" is excluded from
\* authentication, whatever requests were matched before it.
C12_RootAlwaysExcluded ==
  \A r \in Reqs :
    (Started(reqs[r]) /\ reqs[r].path = S_root) => reqs[r].excluded

\* C13: a request is excluded exactly when at least one compiled pattern
\* matches it: a {url, methods} entry by method and path, a path-only entry
\* by the path alone.
C13_ExcludedIffSomePatternMatches ==
  \A r \in Reqs :
    Started(reqs[r]) =>
      (reqs[r].excluded <=>
         \E k \in 1..Len(excludedRoutes) :
           PatternMatches(excludedRoutes[k], reqs[r].method, reqs[r].path))

\* C14: when the modern verifier's key callback gets a header without a key
\* id, the request is rejected with the message "JWT KID Not Found", and
\* neither cache.get, getSigningKeyAsync nor cache.set is called for it.
C14_NoKidRejectedWithoutLookup ==
  \A r \in Reqs :
    LET q == reqs[r] IN
      (/\ "v2" \in q.invoked
       /\ expressJwtTokenError(q) = NoError
       /\ Tok(q).kid = "none") =>
        /\ Done(q)
        /\ Len(q.nextCalls) = 1
        /\ q.nextCalls[1].message = "JWT KID Not Found"
        /\ q.seenAge = -2 /\ ~q.hit
        /\ q.fetches = 0
        /\ q.setCall = NoCall /\ ~q.wrote

\* C14 witness: an RS256 token without a key id went to the modern verifier
\* and was rejected, the cache still empty.
C14_Witness ==
  \E r \in Reqs :
    /\ Done(reqs[r]) /\ reqs[r].invoked = {"v2"}
    /\ reqs[r].auth = Auth("Bearer", "t_rs_nokid")
    /\ reqs[r].nextCalls = <<PlainError("JWT KID Not Found")>>
    /\ \A k \in CacheKeys : cache[k] = NoEntry

\* C15: when the key-set fetch of a request fails, no value is handed to the
\* signature verification as the key: the key callback reports an error.
C15_FailedFetchFailsResolution ==
  \A r \in Reqs :
    (Done(reqs[r]) /\ reqs[r].fetchFailed) => reqs[r].key = KeyNone

\* the terminal states of a request
Verified(q) == Done(q) /\ q.accepted # {} /\ Admitted(q)

Rejected(q) == Done(q) /\ q.accepted = {} /\ (ErrorsOf(q) # {} \/ q.threw)

\* C16: provided every cache.get, cache.set and key-set fetch completes,
\* every request that is not excluded eventually ends Verified or Rejected.
C16_EveryRequestTerminates ==
  \A r \in Reqs :
    (Started(reqs[r]) /\ ~reqs[r].excluded) ~>
      (Verified(reqs[r]) \/ Rejected(reqs[r]))

\* C16 witness: a request that waited for cache.get, the fetch and cache.set
\* has ended Rejected, and one that waited for cache.get has ended Verified.
C16_Witness ==
  \E r1, r2 \in Reqs :
    /\ Rejected(reqs[r1]) /\ reqs[r1].wrote
    /\ Verified(reqs[r2]) /\ reqs[r2].hit

\* C17: a request is dispatched to the legacy verifier only when secret and
\* enableV1 are set, to the modern verifier only when audience and jwksUrl
\* are set, and never to a verifier that was not constructed.
C17_DispatchOnlyToConstructedVerifier ==
  \A r \in Reqs :
    /\ "v1" \in reqs[r].invoked => config.secret /\ config.enableV1
    /\ "v2" \in reqs[r].invoked => config.audience /\ config.jwksUrl
    /\ ~reqs[r].threw

\* C18: under every interleaving, a resolution that resolves with key bytes
\* resolves with the bytes of its key id, and an entry stored under "kid" +
\* key id is the base64 form of those bytes and decodes to them.
C18_ResolutionsAgreeOnKey ==
  /\ \A r \in Reqs :
       reqs[r].key.kind = "bytes" =>
         reqs[r].key.bytes = KeyOfKid(Tok(reqs[r]).kid)
  /\ \A k \in Kids :
       cache[CacheKey(k)].age >= 0 =>
         /\ cache[CacheKey(k)].value = Base64Encode(KeyOfKid(k))
         /\ Base64Decode(cache[CacheKey(k)].value) = KeyOfKid(k)

\* C18 witness: two requests for one key id both missed the cache, both
\* fetched and stored the key, and both were verified; and the entries of
\* two key ids are stored side by side.
C18_Witness ==
  \/ \E r1, r2 \in Reqs :
       /\ r1 # r2 /\ Tok(reqs[r1]).kid = Tok(reqs[r2]).kid
       /\ Done(reqs[r1]) /\ reqs[r1].wrote /\ reqs[r1].accepted = {"v2"}
       /\ Done(reqs[r2]) /\ reqs[r2].wrote /\ reqs[r2].accepted = {"v2"}
       /\ reqs[r1].seenAge = -1 /\ reqs[r2].seenAge = -1
  \/ /\ \A k \in Kids : cache[CacheKey(k)].age >= 0
     /\ \E r \in Reqs : Done(reqs[r]) /\ reqs[r].hit

\* C19: next is called at most once for a request.
C19_NextAtMostOnce ==
  \A r \in Reqs : Len(reqs[r].nextCalls) <= 1

\* C20: at most one verifier is invoked for a request: a request dispatched
\* to the modern verifier is never handed to the legacy verifier, and when
\* the modern verifier does not accept it the request ends rejected.
C20_NoFallbackToLegacy ==
  \A r \in Reqs :
    LET q == reqs[r] IN
      /\ Cardinality(q.invoked) <= 1
      /\ "v2" \in q.invoked =>
           /\ q.invoked = {"v2"}
           /\ q.accepted \subseteq {"v2"}
           /\ (Done(q) /\ q.accepted = {}) => Rejected(q) /\ ~Admitted(q)

\* C20 witness: with the legacy verifier constructed, a request whose RS256
\* token failed the signature check ended rejected, the legacy verifier
\* never invoked.
C20_Witness ==
  \E r \in Reqs :
    /\ v1Defined(config)
    /\ Rejected(reqs[r]) /\ reqs[r].invoked = {"v2"}
    /\ reqs[r].auth = Auth("Bearer", "t_rs_k1_bad")
    /\ reqs[r].key.kind = "bytes"

====
